---- MODULE Spec2Model ----
\* Model of color_generator.py: the colour parser (format_color), the batch
\* reader (read_colors), the four reducers (mix, lowest, highest,
\* mix_saturate), the average saturation and the report (Color).
\*
\* Spec       one run of the script: file text and CLI colours are read line
\*            by line, the average saturation is taken, the batch is reduced
\*            by the selected mode and the result is reported.
\* SpecParse  format_color and Color.color_to_hex on single text tokens:
\*            parse, encode the parsed colour, parse the encoder's output.
\*
\* Python's float is IEEE-754 binary64; the script divides, multiplies and
\* compares floats, so the model carries binary64 values and rounds every
\* operation as the hardware does.  Python's int is unbounded; every int of
\* the runs modelled here stays below 2^31.
EXTENDS Integers, Sequences, FiniteSets, TLC

VARIABLES
    filetext,         \* content of colors.txt, a sequence of characters
    color_cli,        \* positional command-line colour tokens
    mode,             \* --mode
    pc,               \* position of the run
    content_lines,    \* read_colors: file lines followed by the CLI tokens
    line_no,          \* read_colors: index of the line the loop is at
    reds, greens, blues, alphas,
    stdout,           \* lines printed so far (labels only)
    mean_saturation,  \* float
    branch,           \* mix_saturate: "max", "min" or "none" (which arm ran)
    new_color,        \* <<r, g, b, a>> once reduced, else <<>>
    color_hex, hue, saturation, lightness,
    error,            \* "" or the exception that ended the run
    token,            \* SpecParse: the text token
    parsed,           \* SpecParse: format_color(token)
    hex_out,          \* SpecParse: color_to_hex of the parsed colour
    reparsed,         \* SpecParse: format_color(hex_out)
    ppc               \* SpecParse: position

vars == <<filetext, color_cli, mode, pc, content_lines, line_no, reds, greens, blues,
          alphas, stdout, mean_saturation, branch, new_color, color_hex, hue,
          saturation, lightness, error, token, parsed, hex_out, reparsed, ppc>>
runVars == <<filetext, color_cli, mode, pc, content_lines, line_no, reds, greens, blues,
             alphas, stdout, mean_saturation, branch, new_color, color_hex, hue,
             saturation, lightness, error>>
parseVars == <<token, parsed, hex_out, reparsed, ppc>>

\* ------------------------------------------------------------------
\* IEEE-754 binary64 arithmetic (round to nearest, ties to even), the
\* arithmetic of Python's float.  A finite double is sgn * man * 2^exp
\* with man a 53-bit integer (2^52 <= man < 2^53) or zero; man is kept as
\* four limbs of 14 bits, least significant first.  Intermediate integers
\* (products, aligned sums, quotients) take eight limbs.
\* ------------------------------------------------------------------
\* the element of a one-element set: The({ e : x \in {v} }) is e with x
\* standing for the value of v, which is computed once
The(S) == CHOOSE r \in S : TRUE

LimbBits == 14
Base == 2 ^ LimbBits
ManLimbs == 4
WideLimbs == 8
ManBits == 53

Limb(a, i) == IF i \in 1..Len(a) THEN a[i] ELSE 0
\* the limbs f[1], ..., f[n] as a tuple (n is ManLimbs or WideLimbs)
Limbs(f, n) ==
    IF n = ManLimbs THEN <<f[1], f[2], f[3], f[4]>>
    ELSE <<f[1], f[2], f[3], f[4], f[5], f[6], f[7], f[8]>>
Widen(a0, n) == The({ Limbs([i \in 1..n |-> Limb(a, i)], n) : a \in {a0} })
BZero(n) == Limbs([i \in 1..n |-> 0], n)
BIsZero(a0) == \E a \in {a0} : \A i \in 1..Len(a) : a[i] = 0

RECURSIVE Carry(_, _, _)
\* propagate carries (or borrows) from limb i on, so that every limb but the
\* last is in 0..Base-1
Carry(a, i, c) ==
    The({ IF i = Len(a) THEN <<t>> ELSE <<t % Base>> \o Carry(a, i + 1, t \div Base) :
          t \in {a[i] + c} })
BNorm(a0) == The({ Carry(a, 1, 0) : a \in {a0} })

RECURSIVE BCmpFrom(_, _, _)
BCmpFrom(a, b, i) ==
    IF i = 0 THEN 0
    ELSE IF a[i] > b[i] THEN 1
    ELSE IF a[i] < b[i] THEN -1
    ELSE BCmpFrom(a, b, i - 1)
\* -1, 0, 1 for a below, equal to, above b (equal lengths, normalised)
BCmp(a0, b0) == The({ BCmpFrom(a, b, Len(a)) : a \in {a0}, b \in {b0} })

BAdd(a0, b0) ==
    The({ BNorm(Limbs([i \in 1..Len(a) |-> a[i] + b[i]], Len(a))) : a \in {a0}, b \in {b0} })
BSub(a0, b0) ==
    The({ BNorm(Limbs([i \in 1..Len(a) |-> a[i] - b[i]], Len(a))) : a \in {a0}, b \in {b0} })
\* a * 2^k
BShl(a0, k0) ==
    The({ Limbs([i \in 1..Len(a) |->
                    ((Limb(a, i - (k \div LimbBits)) * (2 ^ (k % LimbBits))) % Base)
                    + (Limb(a, i - (k \div LimbBits) - 1) \div (2 ^ (LimbBits - (k % LimbBits))))],
                Len(a)) :
          a \in {a0}, k \in {k0} })
\* a \div 2^k
BShr(a0, k0) ==
    The({ Limbs([i \in 1..Len(a) |->
                    (Limb(a, i + (k \div LimbBits)) \div (2 ^ (k % LimbBits)))
                    + ((Limb(a, i + (k \div LimbBits) + 1) % (2 ^ (k % LimbBits)))
                       * (2 ^ (LimbBits - (k % LimbBits))))],
                Len(a)) :
          a \in {a0}, k \in {k0} })
\* the k low bits of a are zero
BLowZero(a0, k0) ==
    \E a \in {a0}, k \in {k0} :
        /\ \A i \in 1..(k \div LimbBits) : Limb(a, i) = 0
        /\ Limb(a, (k \div LimbBits) + 1) % (2 ^ (k % LimbBits)) = 0
\* bit k of a (bit 0 is the lowest)
BBit(a, k0) == The({ (Limb(a, (k \div LimbBits) + 1) \div (2 ^ (k % LimbBits))) % 2 : k \in {k0} })
BitsOf(x0) == The({ CHOOSE n \in 0..LimbBits : x < 2 ^ n /\ (n = 0 \/ x >= 2 ^ (n - 1)) : x \in {x0} })
\* the number of bits of a normalised a
BitLen(a0) ==
    The({ IF \A i \in 1..Len(a) : a[i] = 0 THEN 0
          ELSE The({ LimbBits * (top - 1) + BitsOf(a[top]) :
                     top \in {CHOOSE i \in 1..Len(a) : a[i] # 0 /\ \A j \in (i + 1)..Len(a) : a[j] = 0} }) :
          a \in {a0} })
\* the product of two mantissas, column by column
BMul(a0, b0) ==
    The({ BNorm(<<a[1] * b[1],
                  a[1] * b[2] + a[2] * b[1],
                  a[1] * b[3] + a[2] * b[2] + a[3] * b[1],
                  a[1] * b[4] + a[2] * b[3] + a[3] * b[2] + a[4] * b[1],
                  a[2] * b[4] + a[3] * b[3] + a[4] * b[2],
                  a[3] * b[4] + a[4] * b[3],
                  a[4] * b[4],
                  0>>) :
          a \in {a0}, b \in {b0} })
\* n < 2^31 as len limbs
BFromNat(n0, len) ==
    The({ Limbs([i \in 1..len |-> IF i <= 3 THEN (n \div (Base ^ (i - 1))) % Base ELSE 0], len) :
          n \in {n0} })
\* a < 2^31 as a number
BToNat(a0) == The({ a[1] + a[2] * Base + a[3] * Base * Base : a \in {a0} })

FZero == [sgn |-> 1, man |-> BZero(ManLimbs), exp |-> 0]
FIsZero(x) == BIsZero(x.man)

\* n, of ManBits + k bits, cut to ManBits bits and rounded to even
FRoundCut(s, n, e, sticky, k) ==
    The({ IF BitLen(m2) > ManBits
          THEN [sgn |-> s, man |-> Widen(BShr(m2, 1), ManLimbs), exp |-> e + k + 1]
          ELSE [sgn |-> s, man |-> Widen(m2, ManLimbs), exp |-> e + k] :
          m2 \in { The({ IF BBit(n, k - 1) = 1 /\ (sticky \/ ~BLowZero(n, k - 1) \/ BBit(kept, 0) = 1)
                         THEN BAdd(kept, BFromNat(1, WideLimbs))
                         ELSE kept :
                         kept \in {BShr(n, k)} }) } })
\* the double nearest to s * n * 2^e (n a normalised wide integer); sticky
\* says that the exact magnitude lies strictly above n * 2^e
FRound(s0, n0, e0, sticky0) ==
    The({ The({ IF len = 0 THEN FZero
                ELSE IF len <= ManBits
                THEN [sgn |-> s, man |-> Widen(BShl(n, ManBits - len), ManLimbs),
                      exp |-> e - (ManBits - len)]
                ELSE FRoundCut(s, n, e, sticky, len - ManBits) :
                len \in {BitLen(n)} }) :
          s \in {s0}, n \in {n0}, e \in {e0}, sticky \in {sticky0} })

\* float(n) for a Python int n, |n| < 2^31
FInt(n0) ==
    The({ FRound(IF n < 0 THEN -1 ELSE 1, BFromNat(IF n < 0 THEN -n ELSE n, WideLimbs), 0, FALSE) :
          n \in {n0} })

FNeg(x0) == The({ IF FIsZero(x) THEN x ELSE [x EXCEPT !.sgn = -x.sgn] : x \in {x0} })
FAbs(x) == [x EXCEPT !.sgn = 1]

\* -1, 0, 1 as |x| is below, equal to, above |y|
FCmpMag(x, y) ==
    IF FIsZero(x) THEN (IF FIsZero(y) THEN 0 ELSE -1)
    ELSE IF FIsZero(y) THEN 1
    ELSE IF x.exp > y.exp THEN 1
    ELSE IF x.exp < y.exp THEN -1
    ELSE BCmp(x.man, y.man)
FSign(x) == IF FIsZero(x) THEN 0 ELSE x.sgn
FCmp(x0, y0) ==
    The({ IF FSign(x) # FSign(y) THEN (IF FSign(x) > FSign(y) THEN 1 ELSE -1)
          ELSE IF FSign(x) = 0 THEN 0
          ELSE FSign(x) * FCmpMag(x, y) :
          x \in {x0}, y \in {y0} })
FLt(x, y) == FCmp(x, y) < 0
FLe(x, y) == FCmp(x, y) <= 0
FGt(x, y) == FCmp(x, y) > 0
FEq(x, y) == FCmp(x, y) = 0

MaxAlign == 56
\* big + small for |big| >= |small|, neither zero
FAddOrdered(big, small) ==
    The({ IF big.exp - small.exp > MaxAlign
          THEN IF big.sgn = small.sgn
               THEN FRound(big.sgn, BShl(wb, 2), big.exp - 2, TRUE)
               ELSE FRound(big.sgn, BSub(BShl(wb, 2), BFromNat(1, WideLimbs)), big.exp - 2, TRUE)
          ELSE IF big.sgn = small.sgn
               THEN FRound(big.sgn, BAdd(BShl(wb, big.exp - small.exp), ws), small.exp, FALSE)
               ELSE FRound(big.sgn, BSub(BShl(wb, big.exp - small.exp), ws), small.exp, FALSE) :
          wb \in {Widen(big.man, WideLimbs)}, ws \in {Widen(small.man, WideLimbs)} })
FAdd(x0, y0) ==
    The({ IF FIsZero(x) THEN y
          ELSE IF FIsZero(y) THEN x
          ELSE IF FCmpMag(x, y) >= 0 THEN FAddOrdered(x, y)
          ELSE FAddOrdered(y, x) :
          x \in {x0}, y \in {y0} })
FSub(x, y) == FAdd(x, FNeg(y))

FMul(x0, y0) ==
    The({ IF FIsZero(x) \/ FIsZero(y) THEN FZero
          ELSE FRound(x.sgn * y.sgn, BMul(x.man, y.man), x.exp + y.exp, FALSE) :
          x \in {x0}, y \in {y0} })

QuotLimbs == 5
RECURSIVE DivFix(_, _, _)
\* long division, one limb of the quotient: u (five limbs) is below v * Base
\* and q is not below u \div v; q comes down until u - q * v is not negative
DivFix(u, v, q0) ==
    The({ The({ IF w[5] < 0 THEN DivFix(u, v, q - 1)
                ELSE [quot |-> q, rem |-> <<w[1], w[2], w[3], w[4]>>] :
                w \in {BNorm(<<u[1] - q * v[1], u[2] - q * v[2], u[3] - q * v[3],
                               u[4] - q * v[4], u[5]>>)} }) :
          q \in {q0} })
\* the estimate of u \div v from the two top limbs of u and the top limb of v
\* (v[4] >= Base \div 2, so that the estimate is at most 2 too large)
DivEstimate(u, v) ==
    IF (u[5] * Base + u[4]) \div v[4] >= Base THEN Base - 1 ELSE (u[5] * Base + u[4]) \div v[4]
RECURSIVE DivLimbs(_, _, _)
\* the limbs j, ..., 1 of the quotient and the remainder
DivLimbs(u0, v, j) ==
    The({ The({ IF j = 1 THEN [quot |-> <<hi.quot>>, rem |-> hi.rem]
                ELSE The({ [quot |-> lo.quot \o <<hi.quot>>, rem |-> lo.rem] :
                           lo \in {DivLimbs(<<0>> \o hi.rem, v, j - 1)} }) :
                hi \in {DivFix(u, v, DivEstimate(u, v))} }) :
          u \in {u0} })
\* x / y for y not zero: the quotient of the mantissas to QuotLimbs limbs,
\* rounded with what the remainder says
FDiv(x0, y0) ==
    The({ IF FIsZero(x) THEN FZero
          ELSE The({ FRound(x.sgn * y.sgn, Widen(r.quot, WideLimbs),
                            x.exp - y.exp - LimbBits * (QuotLimbs - 1), ~BIsZero(r.rem)) :
                     r \in {DivLimbs(Append(BShl(x.man, LimbBits * ManLimbs - ManBits), 0),
                                     BShl(y.man, LimbBits * ManLimbs - ManBits), QuotLimbs)} }) :
          x \in {x0}, y \in {y0} })

FMax(x0, y0) == The({ IF FGt(y, x) THEN y ELSE x : x \in {x0}, y \in {y0} })
FMin(x0, y0) == The({ IF FLt(y, x) THEN y ELSE x : x \in {x0}, y \in {y0} })

\* the integer nearest to w / 2^k, ties to even
FNearest(w, k) ==
    The({ BToNat(kept) + (IF BBit(w, k - 1) = 1 /\ (~BLowZero(w, k - 1) \/ BBit(kept, 0) = 1)
                          THEN 1 ELSE 0) :
          kept \in {BShr(w, k)} })
\* Python's round(x) and int(round(x, 0)): the nearest integer, ties to even
FToIntRound(x0) ==
    The({ IF FIsZero(x) THEN 0
          ELSE IF x.exp >= 0 THEN x.sgn * BToNat(BShl(Widen(x.man, WideLimbs), x.exp))
          ELSE IF -x.exp > ManBits + 1 THEN 0
          ELSE The({ x.sgn * FNearest(w, -x.exp) : w \in {Widen(x.man, WideLimbs)} }) :
          x \in {x0} })
\* Python's int(x): truncation toward zero
FToIntTrunc(x0) ==
    The({ IF FIsZero(x) THEN 0
          ELSE IF x.exp >= 0 THEN x.sgn * BToNat(BShl(Widen(x.man, WideLimbs), x.exp))
          ELSE IF -x.exp > ManBits THEN 0
          ELSE x.sgn * BToNat(BShr(Widen(x.man, WideLimbs), -x.exp)) :
          x \in {x0} })

\* ------------------------------------------------------------------
\* Text: a string is a sequence of one-character strings.
\* ------------------------------------------------------------------
HexDigits == <<"0", "1", "2", "3", "4", "5", "6", "7", "8", "9", "a", "b", "c", "d", "e", "f">>
Whitespace == {" ", "\t", "\n", "\r"}
IsHexDigit(c) == \E i \in 1..Len(HexDigits) : HexDigits[i] = c
IsDecDigit(c) == \E i \in 1..10 : HexDigits[i] = c
DigitVal(c) == (CHOOSE i \in 1..Len(HexDigits) : HexDigits[i] = c) - 1
IsIntDigit(c, base) == IsHexDigit(c) /\ DigitVal(c) < base

RECURSIVE rstrip(_)
\* str.rstrip(): trailing whitespace removed
rstrip(s0) ==
    The({ IF Len(s) > 0 /\ s[Len(s)] \in Whitespace THEN rstrip(SubSeq(s, 1, Len(s) - 1)) ELSE s :
          s \in {s0} })

RECURSIVE split(_, _)
\* str.split(sep): the pieces between the separators, empty pieces kept
split(s0, sep) ==
    The({ IF \A i \in 1..Len(s) : s[i] # sep THEN <<s>>
          ELSE The({ <<SubSeq(s, 1, k - 1)>> \o split(SubSeq(s, k + 1, Len(s)), sep) :
                     k \in {CHOOSE i \in 1..Len(s) : s[i] = sep /\ \A j \in 1..(i - 1) : s[j] # sep} }) :
          s \in {s0} })

RECURSIVE DigitsValue(_, _)
DigitsValue(s0, base) ==
    The({ IF Len(s) = 0 THEN 0
          ELSE DigitsValue(SubSeq(s, 1, Len(s) - 1), base) * base + DigitVal(s[Len(s)]) :
          s \in {s0} })
\* int(text, base) on the digits of text (after the 0x prefix, if any):
\* trailing whitespace is dropped; <<>> stands for ValueError (no digit, or
\* a character that is no digit of the base)
PyInt(s, base) ==
    The({ IF Len(t) = 0 \/ \E i \in 1..Len(t) : ~IsIntDigit(t[i], base) THEN <<>>
          ELSE <<DigitsValue(t, base)>> :
          t \in {rstrip(s)} })

\* Python's slice color[i:j] with 0-based i, j
Slice(s, i, j) == SubSeq(s, i + 1, IF j > Len(s) THEN Len(s) ELSE j)
\* in re.search(r"^...$", s) the $ matches at the end and before a final newline
BeforeEnd(s) == IF Len(s) > 0 /\ s[Len(s)] = "\n" THEN SubSeq(s, 1, Len(s) - 1) ELSE s
HexBody(s0) == \E s \in {s0} : Len(s) \in {3, 6, 8} /\ \A i \in 1..Len(s) : IsHexDigit(s[i])
HexPattern(s) == HexBody(s) \/ HexBody(BeforeEnd(s))
DecField(f) == Len(f) \in 1..3 /\ \A i \in 1..Len(f) : IsDecDigit(f[i])
DecBody(s) == \E f \in {split(s, ",")} : Len(f) = 4 /\ \A i \in 1..4 : DecField(f[i])
DecPattern(s) == DecBody(s) \/ DecBody(BeforeEnd(s))

None == [kind |-> "None", val |-> <<>>]
ValueError == [kind |-> "ValueError", val |-> <<>>]
\* a list of ints, or ValueError when one of the int() calls raised
IntList(xs0) ==
    The({ IF \E i \in 1..Len(xs) : xs[i] = <<>> THEN ValueError
          ELSE [kind |-> "list", val |-> <<xs[1][1], xs[2][1], xs[3][1], xs[4][1]>>] :
          xs \in {xs0} })

\* format_color: [kind |-> "list", val |-> <<r, g, b, a>>], None or ValueError
format_color(color0) ==
    The({ IF HexPattern(color)
          THEN IF Len(color) = 3
               THEN IntList(<<PyInt(<<color[1], color[1]>>, 16), PyInt(<<color[2], color[2]>>, 16),
                              PyInt(<<color[3], color[3]>>, 16), PyInt(<<"f", "f">>, 16)>>)
               ELSE IntList(<<PyInt(Slice(color, 0, 2), 16), PyInt(Slice(color, 2, 4), 16),
                              PyInt(Slice(color, 4, 6), 16),
                              IF Len(color) = 8 THEN PyInt(Slice(color, 6, Len(color)), 16)
                              ELSE PyInt(<<"f", "f">>, 16)>>)
          ELSE IF DecPattern(color)
          THEN The({ IntList(<<PyInt(f[1], 10), PyInt(f[2], 10), PyInt(f[3], 10), PyInt(f[4], 10)>>) :
                     f \in {split(color, ",")} })
          ELSE None :
          color \in {color0} })

\* ------------------------------------------------------------------
\* class Color
\* ------------------------------------------------------------------
\* Color.__init__: the four channels divided by 255.
Color(r, g, b, a) ==
    [r |-> FDiv(FInt(r), FInt(255)), g |-> FDiv(FInt(g), FInt(255)),
     b |-> FDiv(FInt(b), FInt(255)), a |-> FDiv(FInt(a), FInt(255))]

RECURSIVE HexStr(_)
\* the lower-case hex digits of n >= 0
HexStr(n0) ==
    The({ IF n < 16 THEN <<HexDigits[n + 1]>> ELSE HexStr(n \div 16) \o <<HexDigits[(n % 16) + 1]>> :
          n \in {n0} })
\* "{:02x}".format(n)
Format02x(n0) ==
    The({ IF n < 0 THEN <<"-">> \o HexStr(-n)
          ELSE IF n < 16 THEN <<"0">> \o HexStr(n)
          ELSE HexStr(n) :
          n \in {n0} })
color_to_hex(self0) ==
    The({ <<"#">> \o Format02x(FToIntTrunc(FMul(self.r, FInt(255))))
                  \o Format02x(FToIntTrunc(FMul(self.g, FInt(255))))
                  \o Format02x(FToIntTrunc(FMul(self.b, FInt(255))))
                  \o Format02x(FToIntTrunc(FMul(self.a, FInt(255)))) :
          self \in {self0} })

FMax3(x, y, z) == FMax(FMax(x, y), z)
FMin3(x, y, z) == FMin(FMin(x, y), z)
\* calc_hue for delta not zero: the branch on the maximal channel, then h += 360
\* for h < 0
HueOf(self, cmax, delta) ==
    The({ IF FLt(h, FZero) THEN FAdd(h, FInt(360)) ELSE h :
          h \in {IF FEq(cmax, self.r) THEN FMul(FDiv(FSub(self.g, self.b), delta), FInt(60))
                 ELSE IF FEq(cmax, self.g)
                 THEN FMul(FDiv(FSub(self.b, self.r), delta), FInt(60))
                 ELSE FMul(FDiv(FSub(self.r, self.g), delta), FInt(60))} })
calc_hue(self0) ==
    The({ The({ IF FIsZero(delta) THEN FZero ELSE HueOf(self, cmax, delta) :
                delta \in {FSub(cmax, FMin3(self.r, self.g, self.b))} }) :
          self \in {self0}, cmax \in {FMax3(self0.r, self0.g, self0.b)} })

Ok(v) == [err |-> "", val |-> v]
Raise(e) == [err |-> e, val |-> FZero]
\* the saturation formula on the channel extremes
SaturationOf(mx, mn) ==
    The({ IF FIsZero(den) THEN Raise("ZeroDivisionError") ELSE Ok(FDiv(FSub(mx, mn), den)) :
          den \in {FSub(FInt(1), FAbs(FSub(FAdd(mx, mn), FInt(1))))} })
\* Color.calc_saturation: a float, or ZeroDivisionError when the denominator
\* 1 - |max + min - 1| is zero
calc_saturation(r, g, b) ==
    The({ The({ IF ~FEq(mx, mn) THEN SaturationOf(mx, mn) ELSE Ok(FZero) :
                mx \in {FMax3(rf, gf, bf)}, mn \in {FMin3(rf, gf, bf)} }) :
          rf \in {FDiv(FInt(r), FInt(255))}, gf \in {FDiv(FInt(g), FInt(255))},
          bf \in {FDiv(FInt(b), FInt(255))} })
calc_lightness(self0) ==
    The({ FDiv(FAdd(FMax3(self.r, self.g, self.b), FMin3(self.r, self.g, self.b)), FInt(2)) :
          self \in {self0} })

\* ------------------------------------------------------------------
\* The reducers
\* ------------------------------------------------------------------
RECURSIVE Sum(_)
Sum(xs0) ==
    The({ IF Len(xs) = 0 THEN 0 ELSE Sum(SubSeq(xs, 1, Len(xs) - 1)) + xs[Len(xs)] : xs \in {xs0} })
RECURSIVE Min(_)
Min(xs0) ==
    The({ IF Len(xs) = 1 THEN xs[1]
          ELSE The({ IF xs[Len(xs)] < m THEN xs[Len(xs)] ELSE m :
                     m \in {Min(SubSeq(xs, 1, Len(xs) - 1))} }) :
          xs \in {xs0} })
RECURSIVE Max(_)
Max(xs0) ==
    The({ IF Len(xs) = 1 THEN xs[1]
          ELSE The({ IF xs[Len(xs)] > m THEN xs[Len(xs)] ELSE m :
                     m \in {Max(SubSeq(xs, 1, Len(xs) - 1))} }) :
          xs \in {xs0} })
\* list.index(x): the first position of x (1-based here)
Index(xs, x) == CHOOSE i \in 1..Len(xs) : xs[i] = x /\ \A j \in 1..(i - 1) : xs[j] # x

\* int(round(sum(xs) / len(xs), 0))
MeanRounded(xs) == FToIntRound(FDiv(FInt(Sum(xs)), FInt(Len(xs))))
\* a mix that cuts the mean to an integer, int(sum / len), in place of rounding it
mix_truncating(red_mix, green_mix, blue_mix, alpha_mix) ==
    <<FToIntTrunc(FDiv(FInt(Sum(red_mix)), FInt(Len(red_mix)))),
      FToIntTrunc(FDiv(FInt(Sum(green_mix)), FInt(Len(green_mix)))),
      FToIntTrunc(FDiv(FInt(Sum(blue_mix)), FInt(Len(blue_mix)))),
      FToIntTrunc(FDiv(FInt(Sum(alpha_mix)), FInt(Len(alpha_mix))))>>
mix(red_mix, green_mix, blue_mix, alpha_mix) ==
    <<MeanRounded(red_mix), MeanRounded(green_mix), MeanRounded(blue_mix), MeanRounded(alpha_mix)>>
\* a lowest that takes max() where the code takes min()
lowest_with_max(red_low, green_low, blue_low, alpha_low) ==
    <<Max(red_low), Max(green_low), Max(blue_low), Max(alpha_low)>>
lowest(red_low, green_low, blue_low, alpha_low) ==
    <<Min(red_low), Min(green_low), Min(blue_low), Min(alpha_low)>>
highest(red_high, green_high, blue_high, alpha_high) ==
    <<Max(red_high), Max(green_high), Max(blue_high), Max(alpha_high)>>

RECURSIVE SumSaturations(_, _, _, _)
\* the loop of average_saturation followed by sum(): the saturations of the
\* first n samples added left to right, or the exception calc_saturation raised
SumSaturations(red_avg, green_avg, blue_avg, n) ==
    IF n = 0 THEN Ok(FZero)
    ELSE The({ IF rest.err # "" THEN rest
               ELSE The({ IF s.err # "" THEN s ELSE Ok(FAdd(rest.val, s.val)) :
                          s \in {calc_saturation(red_avg[n], green_avg[n], blue_avg[n])} }) :
               rest \in {SumSaturations(red_avg, green_avg, blue_avg, n - 1)} })
\* average_saturation: sum(saturations) / len(saturations)
average_saturation(red_avg, green_avg, blue_avg) ==
    The({ IF total.err # "" THEN total
          ELSE IF Len(red_avg) = 0 THEN Raise("ZeroDivisionError")
          ELSE Ok(FDiv(total.val, FInt(Len(red_avg)))) :
          total \in {SumSaturations(red_avg, green_avg, blue_avg, Len(red_avg))} })

\* an assignment that lands one channel further on
SetChannelShifted(last_color, index, value) == [last_color EXCEPT ![(index % 3) + 1] = value]
\* last_color[index] = value
SetChannel(last_color, index, value) == [last_color EXCEPT ![index] = value]
\* the two roots for the raised maximum and the one the code keeps
new_cmax_first(avg_saturation, cmin_mixsat) ==
    FDiv(FAdd(FSub(FMul(FInt(2), avg_saturation), FMul(avg_saturation, cmin_mixsat)), cmin_mixsat),
         FAdd(avg_saturation, FInt(1)))
new_cmax_second(avg_saturation, cmin_mixsat) ==
    FDiv(FSub(FMul(FNeg(avg_saturation), cmin_mixsat), cmin_mixsat), FSub(avg_saturation, FInt(1)))
new_cmax(avg_saturation, cmin_mixsat) ==
    The({ IF FLe(FZero, first) /\ FLe(first, FInt(1)) THEN first
          ELSE new_cmax_second(avg_saturation, cmin_mixsat) :
          first \in {new_cmax_first(avg_saturation, cmin_mixsat)} })
\* the two roots for the changed minimum and the one the code keeps
new_cmin_first(avg_saturation, cmax_mixsat) ==
    FDiv(FSub(FSub(FMul(FInt(2), avg_saturation), FMul(avg_saturation, cmax_mixsat)), cmax_mixsat),
         FSub(avg_saturation, FInt(1)))
new_cmin_second(avg_saturation, cmax_mixsat) ==
    FDiv(FSub(cmax_mixsat, FMul(avg_saturation, cmax_mixsat)), FAdd(avg_saturation, FInt(1)))
new_cmin(avg_saturation, cmax_mixsat) ==
    The({ IF FLe(FZero, first) /\ FLe(first, FInt(1)) THEN first
          ELSE new_cmin_second(avg_saturation, cmax_mixsat) :
          first \in {new_cmin_first(avg_saturation, cmax_mixsat)} })
\* both roots are computed before one is kept, so either zero divisor raises
RootsRaise(avg_saturation) ==
    FIsZero(FAdd(avg_saturation, FInt(1))) \/ FIsZero(FSub(avg_saturation, FInt(1)))
MixSatDone(c, last_alpha_mixsat, b) == [err |-> "", color |-> Append(c, last_alpha_mixsat), branch |-> b]
MixSatFailed(e) == [err |-> e, color |-> <<>>, branch |-> "none"]
\* mix_saturate from the comparison of the saturations on
MixSatBranch(last_color, last_alpha_mixsat, avg_saturation, cmax_mixsat, cmin_mixsat, last_saturation) ==
    IF last_saturation.err # "" THEN MixSatFailed(last_saturation.err)
    ELSE IF FGt(avg_saturation, last_saturation.val) /\ ~FEq(cmax_mixsat, cmin_mixsat)
    THEN IF RootsRaise(avg_saturation) THEN MixSatFailed("ZeroDivisionError")
         ELSE MixSatDone(SetChannel(last_color, Index(last_color, Max(last_color)),
                                    FToIntRound(FMul(new_cmax(avg_saturation, cmin_mixsat), FInt(255)))),
                         last_alpha_mixsat, "max")
    ELSE IF FLt(avg_saturation, last_saturation.val) /\ ~FEq(cmax_mixsat, cmin_mixsat)
    THEN IF RootsRaise(avg_saturation) THEN MixSatFailed("ZeroDivisionError")
         ELSE MixSatDone(SetChannel(last_color, Index(last_color, Min(last_color)),
                                    FToIntRound(FMul(new_cmin(avg_saturation, cmax_mixsat), FInt(255)))),
                         last_alpha_mixsat, "min")
    ELSE MixSatDone(last_color, last_alpha_mixsat, "none")
\* mix_saturate: [err, color, branch]; color is <<r, g, b, a>>
mix_saturate(red_mixsat, green_mixsat, blue_mixsat, alpha_mixsat, avg_saturation) ==
    The({ The({ MixSatBranch(last_color, alpha_mixsat[Len(alpha_mixsat)], avg_saturation,
                             cmax_mixsat, cmin_mixsat, last_saturation) :
                cmax_mixsat \in {FDiv(FInt(Max(last_color)), FInt(255))},
                cmin_mixsat \in {FDiv(FInt(Min(last_color)), FInt(255))},
                last_saturation \in {calc_saturation(last_color[1], last_color[2], last_color[3])} }) :
          last_color \in {<<red_mixsat[Len(red_mixsat)], green_mixsat[Len(green_mixsat)],
                            blue_mixsat[Len(blue_mixsat)]>>} })


\* ------------------------------------------------------------------
\* Inputs
\* ------------------------------------------------------------------
MaxLines == 2
\* lines of colors.txt: 3, 6 and 8 hex digits, decimal r,g,b,a, trailing
\* blanks, a decimal field above 255, and a token that is no colour
FileTokens ==
    { <<"f", "0", "0", " ">>,
      <<"1", "7", ",", "0", ",", "0", ",", "4">>,
      <<"6", "4", "3", "2", "3", "2", "0", "1">>,
      <<"2", "2", "1", "1", "1", "1">>,
      <<"8", "0", "8", "0", "8", "0">>,
      <<"5", "1", "0", ",", "0", ",", "0", ",", "2", "5", "5">>,
      <<"1", "2", "3", "4", "5">> }
CliTokens == { <<"6", "4", "3", "2", "3", "2", "0", "1">> }
Modes == {"mix", "lowest", "highest", "mix-saturate"}

RECURSIVE Join(_, _)
Join(lines, sep) ==
    IF Len(lines) = 0 THEN <<>>
    ELSE IF Len(lines) = 1 THEN lines[1]
    ELSE lines[1] \o <<sep>> \o Join(Tail(lines), sep)
FileTexts == { Join(ls, "\n") : ls \in UNION { [1..n -> FileTokens] : n \in 0..MaxLines } }

Digits3 == {"0", "a", "f"}
Bytes3 == { <<"0", "0">>, <<"7", "f">>, <<"f", "f">> }
Fields3 == { <<"0">>, <<"2", "5", "5">>, <<"9", "9", "9">> }
\* text tokens for format_color: every shape the patterns accept and some
\* they do not
ParseTokens ==
    { <<a, b, c>> : a \in Digits3, b \in Digits3, c \in Digits3 }
    \cup { r \o g \o b : r \in Bytes3, g \in Bytes3, b \in Bytes3 }
    \cup { r \o g \o b \o a : r \in Bytes3, g \in Bytes3, b \in Bytes3, a \in Bytes3 }
    \cup { Join(<<r, g, b, a>>, ",") : r \in Fields3, g \in Fields3, b \in Fields3, a \in Fields3 }
    \cup { <<>>,
           <<"1", "2", "3", "4", "5">>,
           <<"A", "B", "C">>,
           <<"g", "g", "g">>,
           <<"#", "a", "a", "b", "b", "c", "c", "d", "d">>,
           <<" ", "a", "b", "c">>,
           <<"a", "b", "c", " ">>,
           <<"a", "a", "b", "b", "c", "c", "\n">>,
           <<"a", "b", "c", "\n">>,
           <<"1", ",", "2", ",", "3">>,
           <<"1", ",", "2", ",", "3", ",", "4", ",", "5">>,
           <<"1", "0", "0", "0", ",", "0", ",", "0", ",", "0">>,
           <<"0", "0", "7", ",", "1", "0", ",", "2", "0", ",", "3", "\n">>,
           <<"1", ",", ",", "2", ",", "3">> }

\* ------------------------------------------------------------------
\* One run of the script
\* ------------------------------------------------------------------
ParseIdle ==
    /\ token = <<>>
    /\ parsed = None
    /\ hex_out = <<>>
    /\ reparsed = None
    /\ ppc = "idle"
RunIdle(p) ==
    /\ pc = p
    /\ content_lines = <<>>
    /\ line_no = 0
    /\ reds = <<>>
    /\ greens = <<>>
    /\ blues = <<>>
    /\ alphas = <<>>
    /\ stdout = <<>>
    /\ mean_saturation = FZero
    /\ branch = "none"
    /\ new_color = <<>>
    /\ color_hex = <<>>
    /\ hue = FZero
    /\ saturation = FZero
    /\ lightness = FZero
    /\ error = ""

Init ==
    /\ filetext \in FileTexts
    /\ color_cli \in {<<>>} \cup { <<t>> : t \in CliTokens }
    /\ mode \in Modes
    /\ RunIdle("open")
    /\ ParseIdle

\* read_colors, up to the loop: the file is read and split, the CLI tokens follow
OpenFile ==
    /\ pc = "open"
    /\ content_lines' = split(filetext, "\n") \o color_cli
    /\ line_no' = 1
    /\ pc' = "loop"
    /\ UNCHANGED <<filetext, color_cli, mode, reds, greens, blues, alphas, stdout,
                   mean_saturation, branch, new_color, color_hex, hue, saturation,
                   lightness, error, parseVars>>

\* read_colors, one turn of the loop on a line format_color accepts
ReadLineValid ==
    /\ pc = "loop"
    /\ line_no <= Len(content_lines)
    /\ \E color_rgba \in {format_color(rstrip(content_lines[line_no]))} :
           /\ color_rgba.kind = "list"
           /\ reds' = Append(reds, color_rgba.val[1])
           /\ greens' = Append(greens, color_rgba.val[2])
           /\ blues' = Append(blues, color_rgba.val[3])
           /\ alphas' = Append(alphas, color_rgba.val[4])
    /\ line_no' = line_no + 1
    /\ UNCHANGED <<filetext, color_cli, mode, pc, content_lines, stdout, mean_saturation,
                   branch, new_color, color_hex, hue, saturation, lightness, error,
                   parseVars>>

\* a loop that ends at the first line format_color rejects (break where the
\* code goes on to the next line)
ReadLineInvalidBreak ==
    /\ pc = "loop"
    /\ line_no <= Len(content_lines)
    /\ format_color(rstrip(content_lines[line_no])).kind = "None"
    /\ stdout' = Append(stdout, "Invalid color format!")
    /\ line_no' = Len(content_lines) + 1
    /\ UNCHANGED <<filetext, color_cli, mode, pc, content_lines, reds, greens, blues,
                   alphas, mean_saturation, branch, new_color, color_hex, hue,
                   saturation, lightness, error, parseVars>>
\* read_colors, one turn of the loop on a line format_color rejects
ReadLineInvalid ==
    /\ pc = "loop"
    /\ line_no <= Len(content_lines)
    /\ format_color(rstrip(content_lines[line_no])).kind = "None"
    /\ stdout' = Append(stdout, "Invalid color format!")
    /\ line_no' = line_no + 1
    /\ UNCHANGED <<filetext, color_cli, mode, pc, content_lines, reds, greens, blues,
                   alphas, mean_saturation, branch, new_color, color_hex, hue,
                   saturation, lightness, error, parseVars>>

\* read_colors, after the loop: the file is closed and the batch returned
CloseFile ==
    /\ pc = "loop"
    /\ line_no > Len(content_lines)
    /\ pc' = "average"
    /\ UNCHANGED <<filetext, color_cli, mode, content_lines, line_no, reds, greens, blues,
                   alphas, stdout, mean_saturation, branch, new_color, color_hex, hue,
                   saturation, lightness, error, parseVars>>

\* mean_saturation = average_saturation(red, green, blue), in every mode
AverageSaturation ==
    /\ pc = "average"
    /\ \E r \in {average_saturation(reds, greens, blues)} :
           /\ mean_saturation' = r.val
           /\ error' = r.err
           /\ pc' = IF r.err = "" THEN "reduce" ELSE "crashed"
    /\ UNCHANGED <<filetext, color_cli, mode, content_lines, line_no, reds, greens, blues,
                   alphas, stdout, branch, new_color, color_hex, hue, saturation,
                   lightness, parseVars>>

Reduced(c) ==
    /\ new_color' = c
    /\ pc' = "report"
    /\ UNCHANGED <<filetext, color_cli, mode, content_lines, line_no, reds, greens, blues,
                   alphas, stdout, mean_saturation, branch, color_hex, hue, saturation,
                   lightness, error, parseVars>>
Mix == pc = "reduce" /\ mode = "mix" /\ Reduced(mix(reds, greens, blues, alphas))
Lowest == pc = "reduce" /\ mode = "lowest" /\ Reduced(lowest(reds, greens, blues, alphas))
Highest == pc = "reduce" /\ mode = "highest" /\ Reduced(highest(reds, greens, blues, alphas))
MixSaturate ==
    /\ pc = "reduce"
    /\ mode = "mix-saturate"
    /\ \E r \in {mix_saturate(reds, greens, blues, alphas, mean_saturation)} :
           /\ new_color' = r.color
           /\ branch' = r.branch
           /\ error' = r.err
           /\ pc' = IF r.err = "" THEN "report" ELSE "crashed"
    /\ UNCHANGED <<filetext, color_cli, mode, content_lines, line_no, reds, greens, blues,
                   alphas, stdout, mean_saturation, color_hex, hue, saturation, lightness,
                   parseVars>>

ChannelLabels == <<"New red value", "New green value", "New blue value", "New alpha value">>
\* the prints and the Color object of the result
Report ==
    /\ pc = "report"
    /\ \E color_object \in {Color(new_color[1], new_color[2], new_color[3], new_color[4])},
          s \in {calc_saturation(new_color[1], new_color[2], new_color[3])} :
           /\ color_hex' = color_to_hex(color_object)
           /\ hue' = calc_hue(color_object)
           /\ saturation' = s.val
           /\ error' = s.err
           /\ IF s.err = ""
              THEN /\ lightness' = calc_lightness(color_object)
                   /\ stdout' = stdout \o ChannelLabels \o <<"Color in hex", "Hue", "Saturation", "Lightness">>
                   /\ pc' = "done"
              ELSE /\ lightness' = lightness
                   /\ stdout' = stdout \o ChannelLabels \o <<"Color in hex", "Hue">>
                   /\ pc' = "crashed"
    /\ UNCHANGED <<filetext, color_cli, mode, content_lines, line_no, reds, greens, blues,
                   alphas, mean_saturation, branch, new_color, parseVars>>

Next ==
    \/ OpenFile
    \/ ReadLineValid
    \/ ReadLineInvalid
    \/ CloseFile
    \/ AverageSaturation
    \/ Mix
    \/ Lowest
    \/ Highest
    \/ MixSaturate
    \/ Report

Spec == Init /\ [][Next]_vars

\* ------------------------------------------------------------------
\* format_color and color_to_hex on one token
\* ------------------------------------------------------------------
InitParse ==
    /\ token \in ParseTokens
    /\ parsed = None
    /\ hex_out = <<>>
    /\ reparsed = None
    /\ ppc = "parse"
    /\ filetext = <<>>
    /\ color_cli = <<>>
    /\ mode = "mix"
    /\ RunIdle("idle")

Parse ==
    /\ ppc = "parse"
    /\ parsed' = format_color(token)
    /\ ppc' = "encode"
    /\ UNCHANGED <<token, hex_out, reparsed, runVars>>

\* the hex encoder on the parsed colour
Encode ==
    /\ ppc = "encode"
    /\ parsed.kind = "list"
    /\ hex_out' = color_to_hex(Color(parsed.val[1], parsed.val[2], parsed.val[3], parsed.val[4]))
    /\ ppc' = "reparse"
    /\ UNCHANGED <<token, parsed, reparsed, runVars>>

\* the encoder's output given back to format_color
Reparse ==
    /\ ppc = "reparse"
    /\ reparsed' = format_color(hex_out)
    /\ ppc' = "end"
    /\ UNCHANGED <<token, parsed, hex_out, runVars>>

NextParse ==
    \/ Parse
    \/ Encode
    \/ Reparse

SpecParse == InitParse /\ [][NextParse]_vars

\* ------------------------------------------------------------------
\* Properties
\* ------------------------------------------------------------------
Abs(n) == IF n < 0 THEN -n ELSE n
RECURSIVE Gcd(_, _)
Gcd(a, b) == IF b = 0 THEN a ELSE Gcd(b, a % b)
\* the fraction n / d in lowest terms, d > 0
Frac(n, d) == The({ [num |-> n \div g, den |-> d \div g] : g \in {Gcd(Abs(n), d)} })
FracAdd(x, y) == Frac(x.num * y.den + y.num * x.den, x.den * y.den)
FracLt(x, y) == x.num * y.den < y.num * x.den
FracEq(x, y) == x.num * y.den = y.num * x.den

\* the batch as samples, and the last of them, the one mix-saturate works on
Sample(i) == <<reds[i], greens[i], blues[i], alphas[i]>>
Last == <<reds[Len(reds)], greens[Len(reds)], blues[Len(reds)]>>
Result == <<new_color[1], new_color[2], new_color[3]>>
InRangeBatch ==
    \A i \in 1..Len(reds) : \A k \in 1..4 : Sample(i)[k] \in 0..255
Chromatic(c) == Max(c) # Min(c)

\* HSL saturation as a fraction, for channels counted in steps of 1/den:
\* (max - min) / (den - |max + min - den|), 0 for a grey
SatNum(c) == Max(c) - Min(c)
SatDen(c, den) == den - Abs(Max(c) + Min(c) - den)
ExactSaturation(c) == IF Chromatic(c) THEN Frac(SatNum(c), SatDen(c, 255)) ELSE Frac(0, 1)
RECURSIVE ExactSum(_)
ExactSum(n) ==
    IF n = 0 THEN Frac(0, 1)
    ELSE FracAdd(ExactSum(n - 1), ExactSaturation(<<reds[n], greens[n], blues[n]>>))
\* the average saturation of the batch, as a fraction
ExactAverage == The({ Frac(s.num, s.den * Len(reds)) : s \in {ExactSum(Len(reds))} })

\* a state in which a reduction has produced new_color
HasResult == new_color # <<>>
MixSatResult == mode = "mix-saturate" /\ HasResult

\* ---------------- C1 ----------------
\* C1: whatever the token, format_color returns None or exactly four
\* integers, each in 0..255.
C1_ParserRange ==
    ppc # "parse" =>
        \/ parsed = None
        \/ /\ parsed.kind = "list"
           /\ Len(parsed.val) = 4
           /\ \A i \in 1..4 : parsed.val[i] \in 0..255

\* ---------------- C2 ----------------
RECURSIVE ValidSamples(_)
\* the parsed channels of the valid tokens of ts, in the order of ts
ValidSamples(ts0) ==
    The({ IF Len(ts) = 0 THEN <<>>
          ELSE The({ IF p.kind = "list"
                     THEN Append(ValidSamples(SubSeq(ts, 1, Len(ts) - 1)), p.val)
                     ELSE ValidSamples(SubSeq(ts, 1, Len(ts) - 1)) :
                     p \in {format_color(rstrip(ts[Len(ts)]))} }) :
          ts \in {ts0} })
Reported == Cardinality({ i \in 1..Len(stdout) : stdout[i] = "Invalid color format!" })
\* C2: the tokens are the file's lines in file order followed by the CLI
\* tokens; at every point of the reading loop the four channel sequences have
\* one length and hold, sample by sample, the parsed channels of the valid
\* tokens read so far, every invalid token read so far has been reported and
\* has added nothing, and the loop ends only when every token has been read.
C2_ReadColors ==
    pc \notin {"open", "idle"} =>
        /\ content_lines = split(filetext, "\n") \o color_cli
        /\ \E vs \in {ValidSamples(SubSeq(content_lines, 1, line_no - 1))} :
               /\ Len(reds) = Len(vs)
               /\ Len(greens) = Len(vs)
               /\ Len(blues) = Len(vs)
               /\ Len(alphas) = Len(vs)
               /\ \A i \in 1..Len(vs) : Sample(i) = vs[i]
               /\ Reported = (line_no - 1) - Len(vs)
        /\ pc # "loop" => line_no = Len(content_lines) + 1
\* C2, its case: the whole input has been read, an invalid token came before
\* a valid line of the file, and a CLI token came last
C2_Witness_SkippedThenRead ==
    /\ pc = "average"
    /\ Len(color_cli) = 1
    /\ Len(content_lines) = 3
    /\ format_color(rstrip(content_lines[1])).kind = "None"
    /\ Len(reds) = 2
    /\ Reported = 1

\* ---------------- C3 ----------------
\* C3: a run on an empty batch ends in the error "no valid colors", raised
\* before the average saturation or any reduction is computed, and reports
\* no result.
C3_EmptyBatchRejected ==
    (Len(reds) = 0 /\ pc \notin {"open", "loop", "average", "idle"}) =>
        /\ error = "no valid colors"
        /\ new_color = <<>>
        /\ color_hex = <<>>

\* ---------------- C4 ----------------
NearestMean(xs, c) ==
    \E n \in {Len(xs)}, s \in {Sum(xs)} :
        /\ 2 * Abs(c * n - s) <= n
        /\ 2 * Abs(c * n - s) = n => c % 2 = 0
        /\ Min(xs) <= c
        /\ c <= Max(xs)
        /\ n = 1 => c = xs[1]
\* C4: in mode mix, on samples in 0..255, each channel of the result is the
\* integer nearest to the mean of that channel, an exact half going to the
\* even neighbour; so it lies between the channel's minimum and maximum, and
\* one sample alone comes back unchanged.
C4_MixNearestMean ==
    (mode = "mix" /\ HasResult /\ InRangeBatch) =>
        /\ Len(new_color) = 4
        /\ NearestMean(reds, new_color[1])
        /\ NearestMean(greens, new_color[2])
        /\ NearestMean(blues, new_color[3])
        /\ NearestMean(alphas, new_color[4])
\* C4, its case: a mix of two samples with a channel whose mean is an exact
\* half that went up to the even neighbour
C4_Witness_HalfToEven ==
    /\ mode = "mix"
    /\ pc = "report"
    /\ Len(reds) = 2
    /\ InRangeBatch
    /\ 2 * new_color[1] - Sum(reds) = 1
    /\ new_color[1] % 2 = 0

\* ---------------- C5 ----------------
\* C5: whenever a sample is appended to a non-empty batch, no channel of
\* lowest goes up and no channel of highest goes down.
C5_Monotone ==
    [][ (Len(reds) >= 1 /\ Len(reds') = Len(reds) + 1) =>
            \E lo \in {lowest(reds, greens, blues, alphas)},
               lo2 \in {lowest(reds', greens', blues', alphas')},
               hi \in {highest(reds, greens, blues, alphas)},
               hi2 \in {highest(reds', greens', blues', alphas')} :
                \A k \in 1..4 : lo2[k] <= lo[k] /\ hi2[k] >= hi[k] ]_vars
\* C5, its case: a second sample has been appended, and it pulled a channel
\* of lowest down and pushed a channel of highest up
C5_Witness_Appended ==
    /\ pc = "loop"
    /\ Len(reds) = 2
    /\ \E k \in 1..4 : lowest(reds, greens, blues, alphas)[k] < Sample(1)[k]
    /\ \E k \in 1..4 : highest(reds, greens, blues, alphas)[k] > Sample(1)[k]

\* ---------------- C6 ----------------
\* C6: a token of eight hex digits, parsed, encoded by color_to_hex and
\* parsed again, gives the four integers of the first parse.
C6_HexRoundTrip ==
    (ppc = "end" /\ Len(token) = 8 /\ HexBody(token)) => reparsed = parsed

\* ---------------- C7 ----------------
\* the sample c, channels doubled, with channel idx at t half steps
HalfSteps(c, idx, t) == [<<2 * c[1], 2 * c[2], 2 * c[3]>> EXCEPT ![idx] = t]
SatAtMost(c, s) == ~Chromatic(c) \/ SatNum(c) * s.den <= s.num * SatDen(c, 510)
SatAtLeast(c, s) ==
    IF Chromatic(c) THEN SatNum(c) * s.den >= s.num * SatDen(c, 510) ELSE s.num = 0
\* n is the integer nearest to 255 * v for some v in [0, 1] at which the
\* sample with channel idx at v has saturation s: saturation is continuous
\* in v, so s is taken between n - 1/2 and n + 1/2 exactly when it lies
\* between two of the values at n - 1/2, n, n + 1/2
Reproduces(c, idx, n, s) ==
    /\ n \in 0..255
    /\ \E a, b \in {2 * n - 1, 2 * n, 2 * n + 1} \cap 0..510 :
           SatAtMost(HalfSteps(c, idx, a), s) /\ SatAtLeast(HalfSteps(c, idx, b), s)
Replaced == IF FracLt(ExactSaturation(Last), ExactAverage) THEN Index(Last, Max(Last))
            ELSE Index(Last, Min(Last))
\* C7: in mode mix-saturate, on samples in 0..255 with a chromatic last
\* sample whose saturation is not the average, the replaced channel is the
\* integer nearest to a value at which the last sample has the average
\* saturation.
C7_TargetSaturation ==
    (MixSatResult /\ InRangeBatch /\ Chromatic(Last)
        /\ ~FracEq(ExactAverage, ExactSaturation(Last))) =>
        Reproduces(Last, Replaced, Result[Replaced], ExactAverage)

\* ---------------- C8 ----------------
\* the same hue: the same ordering of the channels and the same position of
\* the middle one, i.e. the channel differences scaled by max - min agree
SameHue(c, d) ==
    /\ Chromatic(c)
    /\ Chromatic(d)
    /\ \A i, j \in 1..3 :
           (c[i] - c[j]) * (Max(d) - Min(d)) = (d[i] - d[j]) * (Max(c) - Min(c))
\* the two channels the branch leaves alone
Kept(idx) == { Last[i] : i \in (1..3) \ {idx} }
KeepsHue ==
    \/ Result = Last
    \/ /\ branch = "max"
       /\ \E m \in 0..255 : Kept(Index(Last, Max(Last))) = {m} /\ Result[Index(Last, Max(Last))] > m
    \/ /\ branch = "min"
       /\ \E m \in 0..255 : Kept(Index(Last, Min(Last))) = {m} /\ Result[Index(Last, Min(Last))] < m
\* C8 as stated: in mode mix-saturate the result has the hue of a chromatic
\* last sample.
C8_HuePreserved ==
    (MixSatResult /\ Chromatic(Last)) => SameHue(Last, Result)
\* C8, amended: in mode mix-saturate the result has the hue of a chromatic
\* last sample exactly when it is the last sample itself, or the two channels
\* left alone are equal and the replaced channel stays strictly above them
\* (raised maximum) or strictly below them (changed minimum).
C8_HueKeptIff ==
    (MixSatResult /\ Chromatic(Last)) => (SameHue(Last, Result) <=> KeepsHue)
\* C8, its case: a channel of a chromatic last sample was replaced by
\* another value and the hue is the hue of the last sample
C8_Witness_ChangedSameHue ==
    /\ MixSatResult
    /\ pc = "report"
    /\ branch # "none"
    /\ Result # Last
    /\ SameHue(Last, Result)

\* ---------------- C9 ----------------
\* C9: in mode mix-saturate the result has the alpha of the last sample and
\* differs from it in no channel but the first maximum (average saturation
\* above the last sample's) or the first minimum (below it); it is the last
\* sample when that sample is grey or has the average saturation.
C9_OneChannel ==
    (MixSatResult /\ InRangeBatch) =>
        /\ Len(new_color) = 4
        /\ new_color[4] = alphas[Len(alphas)]
        /\ \A i \in 1..3 :
               Result[i] # Last[i] =>
                   \/ /\ FracLt(ExactSaturation(Last), ExactAverage)
                      /\ i = Index(Last, Max(Last))
                   \/ /\ FracLt(ExactAverage, ExactSaturation(Last))
                      /\ i = Index(Last, Min(Last))
        /\ (~Chromatic(Last) \/ FracEq(ExactAverage, ExactSaturation(Last))) => Result = Last

\* ---------------- C10 ----------------
\* C10: a run on a non-empty batch of samples in 0..255 never divides by
\* zero.
C10_NoDivisionByZero ==
    (Len(reds) >= 1 /\ InRangeBatch) => error # "ZeroDivisionError"
====
